---- MODULE Spec2Model ----
(***************************************************************************)
(* CardBody (hyperglass/ui/components/Card/body.tsx): a themed container.  *)
(*                                                                         *)
(* The component takes its props apart into the click callback and the     *)
(* rest, resolves two colours from the colour mode, and hands the Flex     *)
(* primitive nine computed attributes followed by the spread of the rest.  *)
(*                                                                         *)
(* A props object is a function from attribute names to values; a name     *)
(* outside its DOMAIN is an attribute the caller did not write.  All       *)
(* values are strings; Undefined is JavaScript's undefined, which a caller *)
(* may also write explicitly (bg={undefined}).                             *)
(*                                                                         *)
(* A render is one synchronous call of the component function, so it is    *)
(* one atomic action: the two useColorValue calls of one render read the   *)
(* same colour mode.                                                       *)
(***************************************************************************)
EXTENDS Naturals, Sequences, FiniteSets

VARIABLES
    colorMode,  \* the shared theme mode, "light" or "dark"
    rendered,   \* instance -> its latest render: the props and mode it was
                \* rendered with and the attributes handed to Flex
    invoked     \* the callbacks click interactions have called, in order

vars == <<colorMode, rendered, invoked>>

\* ---------------------------------------------------------------- bounds

\* Most attributes a caller writes besides onClick.
MaxRest == 1
\* Most callback invocations recorded.
MaxClicks == 2
\* CardBody instances on the page in SpecMulti.
NumInstances == 2

\* ---------------------------------------------------------------- values

Undefined == "undefined"

Modes == {"light", "dark"}

Callbacks == {"cb1", "cb2"}

\* The attribute names the component sets itself (body.tsx lines 12-20).
ComputedNames ==
    {"bg", "w", "maxW", "rounded", "color", "onClick", "overflow",
     "borderWidth", "direction"}

\* The computed names a caller's extra attribute can collide with.
CollidingNames == ComputedNames \ {"onClick"}

\* An attribute the component does not set.
PassThroughNames == {"p"}

RestNames == CollidingNames \cup PassThroughNames

\* The values a caller writes for attribute n: a value no default has, and
\* for bg also an explicit undefined.
CallerValues(n) == IF n = "bg" THEN {"red.500", Undefined} ELSE {"red.500"}

WithOnClick(r, h) ==
    [n \in DOMAIN r \cup {"onClick"} |-> IF n = "onClick" THEN h ELSE r[n]]

RestBags ==
    UNION {{r \in [D -> {"red.500", Undefined}] :
               \A n \in D : r[n] \in CallerValues(n)} :
             D \in {S \in SUBSET RestNames : Cardinality(S) <= MaxRest}}

\* Every props object a caller may pass: onClick absent, explicitly
\* undefined, or a callback; and at most MaxRest other attributes.
Props ==
    RestBags \cup
    {WithOnClick(r, h) : r \in RestBags, h \in Callbacks \cup {Undefined}}

\* The props of the several-instance specification.
MultiProps ==
    {p \in Props :
        /\ DOMAIN p \subseteq {"onClick", "bg", "p"}
        /\ Cardinality(DOMAIN p \ {"onClick"}) <= 1
        /\ \A n \in DOMAIN p : p[n] \in {"red.500", "cb1"}}

Instances == 1..NumInstances

\* ---------------------------------------------------------------- component

\* Mutant: a missing callback is replaced by a do-nothing handler
\* (onClick={onClick ?? noop}).
OnClickOf_noop(props) ==
    IF "onClick" \in DOMAIN props /\ props["onClick"] # Undefined
    THEN props["onClick"]
    ELSE "noop"

\* const { onClick, ...rest } = props: the callback, undefined when absent.
OnClickOf(props) ==
    IF "onClick" \in DOMAIN props THEN props["onClick"] ELSE Undefined

\* const { onClick, ...rest } = props: every own attribute but onClick.
RestOf(props) == [n \in DOMAIN props \ {"onClick"} |-> props[n]]

\* The theme provider's selector: the light value in light mode, else the
\* dark one.
useColorValue(light, dark) == IF colorMode = "light" THEN light ELSE dark

\* Mutant: the container is laid out as a row.
Computed_row(bg, color, onClick) ==
    [bg          |-> bg,
     w           |-> "100%",
     maxW        |-> "100%",
     rounded     |-> "md",
     color       |-> color,
     onClick     |-> onClick,
     overflow    |-> "hidden",
     borderWidth |-> "1px",
     direction   |-> "row"]

\* The nine attributes written before the spread.
Computed(bg, color, onClick) ==
    [bg          |-> bg,
     w           |-> "100%",
     maxW        |-> "100%",
     rounded     |-> "md",
     color       |-> color,
     onClick     |-> onClick,
     overflow    |-> "hidden",
     borderWidth |-> "1px",
     direction   |-> "column"]

\* Mutant: {...rest} written before the computed attributes, so the
\* computed value wins.
Spread_defaultsWin(base, rest) ==
    [n \in DOMAIN base \cup DOMAIN rest |->
        IF n \in DOMAIN base THEN base[n] ELSE rest[n]]

\* Mutant: only the computed names reach Flex; other attributes are dropped.
Spread_computedOnly(base, rest) ==
    [n \in DOMAIN base |-> IF n \in DOMAIN rest THEN rest[n] ELSE base[n]]

\* {...rest} after the computed attributes: the later write wins.
Spread(base, rest) ==
    [n \in DOMAIN base \cup DOMAIN rest |->
        IF n \in DOMAIN rest THEN rest[n] ELSE base[n]]

\* Mutant: the text colour is resolved with the background's arguments.
CardBody_swappedColor(props) ==
    LET onClick == OnClickOf(props)
        rest    == RestOf(props)
        bg      == useColorValue("white", "original.dark")
        color   == useColorValue("white", "original.dark")
    IN  Spread(Computed(bg, color, onClick), rest)

\* Mutant: the callback is taken out of the props and never handed on.
CardBody_noForward(props) ==
    LET rest    == RestOf(props)
        bg      == useColorValue("white", "original.dark")
        color   == useColorValue("original.dark", "white")
    IN  Spread(Computed(bg, color, Undefined), rest)

\* The mode an earlier render read, if there was one: what a value cached
\* across renders would hold.
CachedMode ==
    IF DOMAIN rendered = {}
    THEN colorMode
    ELSE rendered[CHOOSE j \in DOMAIN rendered :
                      \A k \in DOMAIN rendered : j <= k].mode

\* Mutant: both colours come from the mode of an earlier render.
CardBody_stale(props) ==
    LET onClick == OnClickOf(props)
        rest    == RestOf(props)
        bg      == IF CachedMode = "light" THEN "white" ELSE "original.dark"
        color   == IF CachedMode = "light" THEN "original.dark" ELSE "white"
    IN  Spread(Computed(bg, color, onClick), rest)

\* Mutant: the text colour is computed once and kept, the background is
\* resolved at each render.
CardBody_cachedColor(props) ==
    LET onClick == OnClickOf(props)
        rest    == RestOf(props)
        bg      == useColorValue("white", "original.dark")
        color   == IF CachedMode = "light" THEN "original.dark" ELSE "white"
    IN  Spread(Computed(bg, color, onClick), rest)

RECURSIVE SpreadAll(_, _)
\* base with the rest of every render in rs spread over it.
SpreadAll(base, rs) ==
    IF rs = {}
    THEN base
    ELSE LET r == CHOOSE x \in rs : TRUE
         IN  SpreadAll(Spread(base, RestOf(r.props)), rs \ {r})

\* Mutant: the computed attributes live in one object shared by all
\* instances, and each render assigns its rest into it.
CardBody_sharedDefaults(props) ==
    LET onClick == OnClickOf(props)
        rest    == RestOf(props)
        bg      == useColorValue("white", "original.dark")
        color   == useColorValue("original.dark", "white")
        shared  == SpreadAll(Computed(bg, color, onClick),
                             {rendered[j] : j \in DOMAIN rendered})
    IN  Spread(shared, rest)

\* The attribute set CardBody hands to Flex.
CardBody(props) ==
    LET onClick == OnClickOf(props)
        rest    == RestOf(props)
        bg      == useColorValue("white", "original.dark")
        color   == useColorValue("original.dark", "white")
    IN  Spread(Computed(bg, color, onClick), rest)

\* ---------------------------------------------------------------- actions

Init ==
    /\ colorMode \in Modes
    /\ rendered = <<>>
    /\ invoked = <<>>

\* Mutant: rendering sets the colour mode.
Render_setsMode(i, p) ==
    /\ rendered' =
         [j \in DOMAIN rendered \cup {i} |->
            IF j = i
            THEN [props  |-> p,
                  mode   |-> colorMode,
                  attrs  |-> CardBody(p),
                  repeat |-> /\ i \in DOMAIN rendered
                             /\ rendered[i].props = p
                             /\ rendered[i].mode = colorMode]
            ELSE rendered[j]]
    /\ colorMode' = "light"
    /\ UNCHANGED invoked

\* Instance i is rendered with props p.  The record keeps the inputs of the
\* render beside its output; repeat says that the previous render of this
\* instance had the same props and the same mode.
Render(i, p) ==
    /\ rendered' =
         [j \in DOMAIN rendered \cup {i} |->
            IF j = i
            THEN [props  |-> p,
                  mode   |-> colorMode,
                  attrs  |-> CardBody(p),
                  repeat |-> /\ i \in DOMAIN rendered
                             /\ rendered[i].props = p
                             /\ rendered[i].mode = colorMode]
            ELSE rendered[j]]
    /\ UNCHANGED <<colorMode, invoked>>

\* The external theme controller switches the mode.
ToggleColorMode ==
    /\ colorMode' = IF colorMode = "light" THEN "dark" ELSE "light"
    /\ UNCHANGED <<rendered, invoked>>

\* A click on the container of instance i calls the onClick attribute Flex
\* was given, if there is one.
Click(i) ==
    /\ i \in DOMAIN rendered
    /\ LET handler == rendered[i].attrs["onClick"]
       IN  IF handler = Undefined
           THEN UNCHANGED vars
           ELSE /\ Len(invoked) < MaxClicks
                /\ invoked' = Append(invoked, handler)
                /\ UNCHANGED <<colorMode, rendered>>

Next ==
    \/ \E p \in Props : Render(1, p)
    \/ ToggleColorMode
    \/ Click(1)

Spec == Init /\ [][Next]_vars

NextMulti ==
    \/ \E i \in Instances, p \in MultiProps : Render(i, p)
    \/ ToggleColorMode
    \/ \E i \in Instances : Click(i)

SpecMulti == Init /\ [][NextMulti]_vars

\* ---------------------------------------------------------------- properties

\* The colour pair of a mode: background and text colour.
LightPair == [bg |-> "white", color |-> "original.dark"]
DarkPair  == [bg |-> "original.dark", color |-> "white"]

\* The caller wrote no callback: onClick is absent or explicitly undefined.
NoCallback(p) == "onClick" \notin DOMAIN p \/ p["onClick"] = Undefined

\* This step is a render of instance i (with the props its record now holds).
RenderStep(i) == i \in DOMAIN rendered' /\ Render(i, rendered'[i].props)

\* C1: a render whose caller wrote neither bg nor color has the mirror pair
\* of the mode it was rendered in: white on original.dark text in light
\* mode, original.dark on white text in dark mode.
C1_MirrorPair ==
    \A i \in DOMAIN rendered :
        LET r == rendered[i]
        IN  ("bg" \notin DOMAIN r.props /\ "color" \notin DOMAIN r.props) =>
              /\ r.mode = "light" =>
                   r.attrs["bg"] = "white" /\ r.attrs["color"] = "original.dark"
              /\ r.mode = "dark" =>
                   r.attrs["bg"] = "original.dark" /\ r.attrs["color"] = "white"

C1_Witness ==
    \E i \in DOMAIN rendered :
        /\ rendered[i].mode = "dark"
        /\ DOMAIN rendered[i].props \cap {"bg", "color"} = {}
        /\ rendered[i].attrs["bg"] = "original.dark"
        /\ rendered[i].attrs["color"] = "white"

\* C2: every attribute the caller wrote under the name of a computed default
\* (bg, w, maxW, rounded, color, overflow, borderWidth, direction) reaches
\* Flex with the caller's value, in either mode.
C2_Override ==
    \A i \in DOMAIN rendered :
        \A n \in DOMAIN rendered[i].props \cap CollidingNames :
            rendered[i].attrs[n] = rendered[i].props[n]

C2_Witness ==
    \E i \in DOMAIN rendered :
        /\ rendered[i].mode = "dark"
        /\ "bg" \in DOMAIN rendered[i].props
        /\ rendered[i].props["bg"] = "red.500"
        /\ rendered[i].attrs["bg"] = "red.500"

\* C3: when the caller wrote a callback, the onClick attribute of the
\* container is that callback, and a click calls it once and changes neither
\* the colour mode nor any render.
C3_ClickForwarding ==
    [][\A i \in DOMAIN rendered :
          LET r == rendered[i]
          IN  ~NoCallback(r.props) =>
                /\ r.attrs["onClick"] = r.props["onClick"]
                /\ Click(i) =>
                     /\ invoked' = Append(invoked, r.props["onClick"])
                     /\ colorMode' = colorMode
                     /\ rendered' = rendered]_vars

C3_Witness ==
    \E i \in DOMAIN rendered :
        /\ ~NoCallback(rendered[i].props)
        /\ rendered[i].props["onClick"] = "cb2"
        /\ invoked = <<"cb2">>

\* C4: when the caller wrote no callback, the container has no onClick
\* handler and a click on it changes nothing.
C4_Omission ==
    [][\A i \in DOMAIN rendered :
          NoCallback(rendered[i].props) =>
            /\ rendered[i].attrs["onClick"] = Undefined
            /\ Click(i) => UNCHANGED vars]_vars

C4_Witness ==
    \E i \in DOMAIN rendered :
        /\ "onClick" \notin DOMAIN rendered[i].props
        /\ rendered[i].attrs["onClick"] = Undefined
        /\ invoked = <<>>

\* C5: a render whose caller wrote none of the colliding names has width
\* 100%, max width 100%, radius md, border width 1px, overflow hidden and
\* direction column, in either mode.
C5_Structural ==
    \A i \in DOMAIN rendered :
        LET r == rendered[i]
        IN  DOMAIN r.props \cap CollidingNames = {} =>
              /\ r.attrs["w"] = "100%"
              /\ r.attrs["maxW"] = "100%"
              /\ r.attrs["rounded"] = "md"
              /\ r.attrs["borderWidth"] = "1px"
              /\ r.attrs["overflow"] = "hidden"
              /\ r.attrs["direction"] = "column"

C5_Witness ==
    \E i \in DOMAIN rendered :
        /\ DOMAIN rendered[i].props = {"onClick", "p"}
        /\ rendered[i].mode = "light"
        /\ rendered[i].attrs["direction"] = "column"
        /\ rendered[i].attrs["w"] = "100%"

C7_RenderKeepsMode ==
    [][/\ \A i \in Instances : RenderStep(i) => colorMode' = colorMode
       /\ colorMode' # colorMode => ToggleColorMode]_vars

C7_Witness ==
    \E i \in DOMAIN rendered :
        /\ rendered[i].repeat
        /\ rendered[i].mode = colorMode
        /\ colorMode = "light"

\* C8: each render takes its colours from the mode current at that render,
\* both from the same mode, whatever toggles and renders came before.
C8_ColoursOfCurrentMode ==
    [][\A i \in Instances :
          RenderStep(i) =>
            LET a    == rendered'[i].attrs
                p    == rendered'[i].props
                pair == IF colorMode = "light" THEN LightPair ELSE DarkPair
            IN  /\ "bg" \notin DOMAIN p => a["bg"] = pair.bg
                /\ "color" \notin DOMAIN p => a["color"] = pair.color]_vars

C8_Witness ==
    /\ DOMAIN rendered = Instances
    /\ rendered[1].mode = "light"
    /\ rendered[2].mode = "dark"
    /\ rendered[1].props = <<>>
    /\ rendered[2].props = <<>>
    /\ rendered[1].attrs["bg"] = "white"
    /\ rendered[1].attrs["color"] = "original.dark"
    /\ rendered[2].attrs["bg"] = "original.dark"
    /\ rendered[2].attrs["color"] = "white"

C10_PassThrough ==
    \A i \in DOMAIN rendered :
        LET r == rendered[i]
        IN  /\ DOMAIN r.attrs = ComputedNames \cup DOMAIN r.props
            /\ \A n \in DOMAIN r.props \ ComputedNames :
                  r.attrs[n] = r.props[n]
            /\ r.attrs["onClick"] =
                  IF "onClick" \in DOMAIN r.props
                  THEN r.props["onClick"]
                  ELSE Undefined

C10_Witness ==
    \E i \in DOMAIN rendered :
        /\ DOMAIN rendered[i].props = {"onClick", "p"}
        /\ rendered[i].props["onClick"] = "cb1"
        /\ rendered[i].attrs["p"] = "red.500"
        /\ rendered[i].attrs["onClick"] = "cb1"
        /\ DOMAIN rendered[i].attrs = ComputedNames \cup {"p"}

====
